---- MODULE Spec2Model ----
(***************************************************************************)
(* A model of the token-selection modal of the bridge UI                   *)
(* (components/TokenModal/TokenModal.tsx): the list computation            *)
(* tokensToShow of TokensPanel (aggregate, filter, sort) and the selection *)
(* handler selectToken of TokenModal.                                      *)
(*                                                                         *)
(* Strings are sequences of one-character strings.  An optional value is   *)
(* a sequence of length 0 (undefined / null) or 1 (the value).             *)
(***************************************************************************)
EXTENDS Integers, Sequences, FiniteSets, TLC

VARIABLES
    tokensFromUser,   \* useTokensFromUser(): address -> record, keys in insertion order
    tokensFromLists,  \* useTokensFromLists(): address -> record, keys in insertion order
    balances,         \* arbTokenBridge.balances (optional)
    isDepositMode,    \* app.isDepositMode
    newToken,         \* the search input's text (useState(''))
    tokensToShow,     \* the memoised list of TokensPanel
    bridgeTokens,     \* the keys of arbTokenBridge.bridgeTokens
    selectedToken,    \* app.selectedToken, as set through setSelectedToken
    currentPanel,     \* TokenModal's panel (useState(Panel.TOKENS))
    calls,            \* the invocations of selectToken, in order, with what each did
    listCall,         \* the last call toggleTokenList made to the bridge (optional)
    ethereum,         \* whether window.ethereum is injected
    closures,         \* per call of setChangeListeners: its `reloading` and its reload() calls
    listeners,        \* the listeners registered on window.ethereum, in order
    events,           \* the events the provider has emitted, in order
    unloaded          \* whether the page has unloaded after a reload() call

panelVars == <<tokensFromUser, tokensFromLists, balances, isDepositMode, newToken,
               tokensToShow>>

modalVars == <<bridgeTokens, selectedToken, currentPanel, calls, listCall>>

listenerVars == <<ethereum, closures, listeners, events, unloaded>>

vars == <<panelVars, modalVars, listenerVars>>

(***************************************************************************)
(* Bounds                                                                  *)
(***************************************************************************)
MaxQueryLen == 3      \* longest text typed into the search input (search runs)
SortQueryLen == 1     \* longest text typed into the search input (sort and modal runs)
MaxCalls == 2         \* invocations of selectToken
MaxSetups == 2        \* invocations of setChangeListeners
MaxEvents == 3        \* events the provider emits
MaxBal == 2           \* largest balance

(***************************************************************************)
(* Optional values                                                         *)
(***************************************************************************)
None == <<>>
Some(v) == <<v>>

(***************************************************************************)
(* Strings                                                                 *)
(***************************************************************************)
toLowerChar(c) ==
    CASE c = "E" -> "e"
      [] c = "T" -> "t"
      [] c = "A" -> "a"
      [] c = "X" -> "x"
      [] OTHER -> c

toLowerCase(s) == [i \in 1..Len(s) |-> toLowerChar(s[i])]

IsSpace(c) == c = " "

RECURSIVE trimStart(_)
trimStart(s) ==
    IF Len(s) > 0 /\ IsSpace(Head(s)) THEN trimStart(Tail(s)) ELSE s

RECURSIVE trimEnd(_)
trimEnd(s) ==
    IF Len(s) > 0 /\ IsSpace(s[Len(s)])
    THEN trimEnd(SubSeq(s, 1, Len(s) - 1))
    ELSE s

trim(s) == trimEnd(trimStart(s))

\* String.prototype.includes
includes(hay, needle) ==
    \E i \in 0..(Len(hay) - Len(needle)) :
        SubSeq(hay, i + 1, i + Len(needle)) = needle

ETH_IDENTIFIER == <<"e", "t", "h", ".", "a", "d", "d", "r", "e", "s", "s">>

ETH_SEARCH == <<"e", "t", "h", "e", "r", "e", "u", "m", "e", "t", "h">>

(***************************************************************************)
(* Token maps: an object with string keys, enumerated in insertion order.  *)
(***************************************************************************)
Range(s) == {s[i] : i \in 1..Len(s)}

InjSeqs(S) ==
    UNION {{s \in [1..n -> S] : \A i, j \in 1..n : s[i] = s[j] => i = j}
           : n \in 0..Cardinality(S)}

\* the object with the given keys, in that order, and the records recs gives them
MakeMap(keys, recs) == [keys |-> keys, at |-> [k \in Range(keys) |-> recs[k]]]

ObjectKeys(m) == m.keys

\* m[address]: the record, or undefined
Lookup(m, address) ==
    IF address \in DOMAIN m.at THEN Some(m.at[address]) ELSE None

\* a || b on optional records (a record is always truthy)
OrElse(a, b) == IF a # None THEN a ELSE b

\* [...new Set(s)]: first occurrences, in order
RECURSIVE Dedup(_)
Dedup(s) ==
    IF s = <<>> THEN <<>>
    ELSE LET init == SubSeq(s, 1, Len(s) - 1)
             last == s[Len(s)]
         IN  IF last \in Range(init) THEN Dedup(init)
             ELSE Append(Dedup(init), last)

(***************************************************************************)
(* TokensPanel                                                             *)
(***************************************************************************)
getBalance(bals, deposit, address) ==
    IF address = ETH_IDENTIFIER
    THEN IF bals = None THEN None
         ELSE IF deposit THEN bals[1].eth.balance
              ELSE bals[1].eth.arbChainBalance
    ELSE IF bals = None THEN None
         ELSE IF address \notin DOMAIN bals[1].erc20 THEN None
              ELSE IF deposit THEN bals[1].erc20[address].balance
                   ELSE bals[1].erc20[address].arbChainBalance

\* tokenSearchOf without the trim
tokenSearchOfUntrimmed(text) == toLowerCase(text)

tokenSearchOf(text) == toLowerCase(trim(text))

\* candidatesOf without the Set
candidatesOfNoSet(user, lists) ==
    <<ETH_IDENTIFIER>> \o ObjectKeys(user) \o ObjectKeys(lists)

candidatesOf(user, lists) ==
    <<ETH_IDENTIFIER>> \o Dedup(ObjectKeys(user) \o ObjectKeys(lists))

\* the record the filter matches the query against
searchRecord(user, lists, address) ==
    OrElse(Lookup(user, address), Lookup(lists, address))[1]

searchText(token) ==
    toLowerCase(token.name \o token.symbol \o token.address
                \o (IF token.l2Address = None THEN <<>> ELSE token.l2Address[1]))

\* filterKeeps without the test for a balance greater than zero
filterKeepsAnyBalance(user, lists, bals, deposit, tokenSearch, address) ==
    IF tokenSearch = <<>>
    THEN IF address = ETH_IDENTIFIER THEN TRUE
         ELSE getBalance(bals, deposit, address) # None
    ELSE IF address = ETH_IDENTIFIER THEN includes(ETH_SEARCH, tokenSearch)
         ELSE includes(searchText(searchRecord(user, lists, address)), tokenSearch)

\* the callback of .filter(...)
filterKeeps(user, lists, bals, deposit, tokenSearch, address) ==
    IF tokenSearch = <<>>
    THEN IF address = ETH_IDENTIFIER THEN TRUE
         ELSE LET balance == getBalance(bals, deposit, address)
              IN  balance # None /\ balance[1] > 0
    ELSE IF address = ETH_IDENTIFIER THEN includes(ETH_SEARCH, tokenSearch)
         ELSE includes(searchText(searchRecord(user, lists, address)), tokenSearch)

\* compare with the two pins of the native asset exchanged
comparePinsNativeLast(bals, deposit, address1, address2) ==
    IF address1 = ETH_IDENTIFIER THEN 1
    ELSE IF address2 = ETH_IDENTIFIER THEN -1
    ELSE LET bal1 == getBalance(bals, deposit, address1)
             bal2 == getBalance(bals, deposit, address2)
         IN  IF bal1 = None /\ bal2 = None THEN 0
             ELSE IF bal1 = None THEN 1
             ELSE IF bal2 = None THEN -1
             ELSE IF bal1[1] > bal2[1] THEN -1 ELSE 1

\* compare with the larger balance last
compareAscending(bals, deposit, address1, address2) ==
    IF address1 = ETH_IDENTIFIER THEN -1
    ELSE IF address2 = ETH_IDENTIFIER THEN 1
    ELSE LET bal1 == getBalance(bals, deposit, address1)
             bal2 == getBalance(bals, deposit, address2)
         IN  IF bal1 = None /\ bal2 = None THEN 0
             ELSE IF bal1 = None THEN 1
             ELSE IF bal2 = None THEN -1
             ELSE IF bal1[1] > bal2[1] THEN 1 ELSE -1

\* compare without the case of two absent balances
compareNoAbsentPair(bals, deposit, address1, address2) ==
    IF address1 = ETH_IDENTIFIER THEN -1
    ELSE IF address2 = ETH_IDENTIFIER THEN 1
    ELSE LET bal1 == getBalance(bals, deposit, address1)
             bal2 == getBalance(bals, deposit, address2)
         IN  IF bal1 = None THEN 1
             ELSE IF bal2 = None THEN -1
             ELSE IF bal1[1] > bal2[1] THEN -1 ELSE 1

\* the callback of .sort(...)
compare(bals, deposit, address1, address2) ==
    IF address1 = ETH_IDENTIFIER THEN -1
    ELSE IF address2 = ETH_IDENTIFIER THEN 1
    ELSE LET bal1 == getBalance(bals, deposit, address1)
             bal2 == getBalance(bals, deposit, address2)
         IN  IF bal1 = None /\ bal2 = None THEN 0
             ELSE IF bal1 = None THEN 1
             ELSE IF bal2 = None THEN -1
             ELSE IF bal1[1] > bal2[1] THEN -1 ELSE 1

(***************************************************************************)
(* Array.prototype.sort.  The comparator answers 1 both ways for two equal *)
(* balances, so it is not a consistent comparator and the order is left to *)
(* the engine.  Two engines' algorithms for short arrays are modelled, and *)
(* the list is sorted by either: a binary insertion sort after an initial  *)
(* run (the comparator is called with the later element first), and a      *)
(* linear insertion sort (called with the earlier element first).          *)
(***************************************************************************)
Engines == {"timsort", "insertion"}

Reverse(s) == [i \in 1..Len(s) |-> s[Len(s) + 1 - i]]

\* move a[start] to position pos <= start
insertAt(a, start, pos) ==
    SubSeq(a, 1, pos - 1) \o <<a[start]>> \o SubSeq(a, pos, start - 1)
        \o SubSeq(a, start + 1, Len(a))

RECURSIVE binarySearch(_, _, _, _, _, _)
binarySearch(bals, deposit, a, pivot, left, right) ==
    IF left < right
    THEN LET mid == left + ((right - left) \div 2)
         IN  IF compare(bals, deposit, pivot, a[mid]) < 0
             THEN binarySearch(bals, deposit, a, pivot, left, mid)
             ELSE binarySearch(bals, deposit, a, pivot, mid + 1, right)
    ELSE left

RECURSIVE binaryInsertionSort(_, _, _, _)
binaryInsertionSort(bals, deposit, a, start) ==
    IF start > Len(a) THEN a
    ELSE binaryInsertionSort(bals, deposit,
            insertAt(a, start, binarySearch(bals, deposit, a, a[start], 1, start)),
            start + 1)

\* the last index of the run that starts at 1; idx is the next index to look at
RECURSIVE runEnd(_, _, _, _, _)
runEnd(bals, deposit, a, idx, descending) ==
    IF idx > Len(a) THEN idx - 1
    ELSE LET order == compare(bals, deposit, a[idx], a[idx - 1])
         IN  IF (descending /\ order >= 0) \/ (~descending /\ order < 0)
             THEN idx - 1
             ELSE runEnd(bals, deposit, a, idx + 1, descending)

timSort(bals, deposit, a) ==
    IF Len(a) < 2 THEN a
    ELSE LET descending == compare(bals, deposit, a[2], a[1]) < 0
             n == runEnd(bals, deposit, a, 3, descending)
             b == IF descending
                  THEN Reverse(SubSeq(a, 1, n)) \o SubSeq(a, n + 1, Len(a))
                  ELSE a
         IN  binaryInsertionSort(bals, deposit, b, n + 1)

RECURSIVE insertionPos(_, _, _, _, _)
insertionPos(bals, deposit, a, item, j) ==
    IF j >= 1 /\ compare(bals, deposit, a[j], item) > 0
    THEN insertionPos(bals, deposit, a, item, j - 1)
    ELSE j + 1

RECURSIVE insertionSort(_, _, _, _)
insertionSort(bals, deposit, a, i) ==
    IF i > Len(a) THEN a
    ELSE insertionSort(bals, deposit,
            insertAt(a, i, insertionPos(bals, deposit, a, a[i], i - 1)),
            i + 1)

arraySort(engine, bals, deposit, a) ==
    IF engine = "timsort" THEN timSort(bals, deposit, a)
    ELSE insertionSort(bals, deposit, a, 2)

filtered(user, lists, bals, deposit, text) ==
    SelectSeq(candidatesOf(user, lists),
              LAMBDA address :
                  filterKeeps(user, lists, bals, deposit, tokenSearchOf(text), address))

\* the useMemo body of tokensToShow, sorted by the given engine
TokensToShow(user, lists, bals, deposit, text, engine) ==
    arraySort(engine, bals, deposit, filtered(user, lists, bals, deposit, text))

\* the lists the render can produce
Renders(user, lists, bals, deposit, text) ==
    {TokensToShow(user, lists, bals, deposit, text, e) : e \in Engines}

(***************************************************************************)
(* The inputs: token addresses, the records of the two maps, balances.     *)
(***************************************************************************)
AddrA == <<"x", "a">>
AddrB == <<"x", "b">>
AddrC == <<"x", "c">>

Addresses == {AddrA, AddrB, AddrC}

\* a record useTokensFromUser() holds for the address
UserRecord(address) ==
    CASE address = AddrA ->
            [name |-> <<"A", "t">>, symbol |-> <<"e">>, address |-> address,
             l2Address |-> None]
      [] address = AddrB ->
            [name |-> <<"t", "a">>, symbol |-> <<"E">>, address |-> address,
             l2Address |-> None]
      [] OTHER ->
            [name |-> <<"a">>, symbol |-> <<"t">>, address |-> address,
             l2Address |-> None]

\* a record useTokensFromLists() holds for the address
ListRecord(address) ==
    CASE address = AddrA ->
            [name |-> <<"E", "t", "a">>, symbol |-> <<"a", "e">>,
             address |-> address, l2Address |-> Some(<<"y", "a">>)]
      [] address = AddrB ->
            [name |-> <<"t">>, symbol |-> <<"T">>, address |-> address,
             l2Address |-> Some(<<"y", "b">>)]
      [] OTHER ->
            [name |-> <<"a", "x">>, symbol |-> <<"a">>, address |-> address,
             l2Address |-> None]

UserRecords == [a \in Addresses |-> UserRecord(a)]
ListRecords == [a \in Addresses |-> ListRecord(a)]

UserMaps(S) == {MakeMap(k, UserRecords) : k \in InjSeqs(S)}
ListMaps(S) == {MakeMap(k, ListRecords) : k \in InjSeqs(S)}

BalVals == {None} \cup {Some(v) : v \in 0..MaxBal}

\* the other chain's balance of an entry: always another value, so that a
\* lookup on the wrong side shows
otherSide(b) ==
    IF b = None THEN Some(0)
    ELSE IF b[1] = MaxBal THEN None ELSE Some(b[1] + 1)

EthBalance == [balance |-> Some(1), arbChainBalance |-> Some(0)]

\* balances of the tokens in D, one side given by f
MakeBalances(D, f) ==
    Some([eth |-> EthBalance,
          erc20 |-> [a \in D |->
                        [balance |-> f[a], arbChainBalance |-> otherSide(f[a])]]])

BalanceMaps(S) ==
    {None} \cup UNION {{MakeBalances(D, f) : f \in [D -> BalVals]} : D \in SUBSET S}

(***************************************************************************)
(* TokenModal: the panel and selectToken.                                  *)
(*                                                                         *)
(* A call of selectToken is recorded with what it did: the calls of close, *)
(* onImportToken, getL1TokenData, updateTokenData, setSelectedToken,       *)
(* alert and console.warn, where it stands (pc) and how its promise ended. *)
(***************************************************************************)
\* the record a row is rendered with and hands to onTokenSelected
rowToken(user, lists, address) ==
    IF address = ETH_IDENTIFIER THEN None
    ELSE OrElse(Lookup(lists, address), Lookup(user, address))

\* what getL1TokenData can resolve to for an address: no data, or the data of
\* the token as the chain has it
L1TokenData(address) ==
    {[name |-> <<"N">>, symbol |-> <<"S">>, address |-> address, l2Address |-> l2]
        : l2 \in {None, Some(<<"y", "z">>)}}

ErrorNames == {"TokenDisabledError", "Error"}

toERC20BridgeToken(data) ==
    [name |-> data.name, symbol |-> data.symbol, address |-> data.address,
     l2Address |-> data.l2Address]

\* refreshedToken without the l2Address of the chosen record
refreshedTokenAsFetched(_token, data) == toERC20BridgeToken(data)

\* {...toERC20BridgeToken(data), l2Address: _token.l2Address}
refreshedToken(_token, data) ==
    [toERC20BridgeToken(data) EXCEPT !.l2Address = _token.l2Address]

NewCall(_token) ==
    [token |-> _token, pc |-> "returned", promise |-> "fulfilled",
     closes |-> 1, imports |-> <<>>, fetches |-> <<>>, fetched |-> "none",
     data |-> None, error |-> None, updates |-> <<>>, selections |-> <<>>,
     alerts |-> 0, warns |-> 0]

\* startCall without the return after onImportToken
startCallImportsAndFetches(_token, known) ==
    IF _token = None
    THEN [NewCall(_token) EXCEPT !.selections = <<None>>]
    ELSE IF _token[1].address = <<>>
    THEN NewCall(_token)
    ELSE [NewCall(_token) EXCEPT
            !.imports = IF _token[1].address \notin known
                        THEN <<_token[1].address>> ELSE <<>>,
            !.fetches = <<_token[1].address>>,
            !.fetched = "pending",
            !.pc = "await",
            !.promise = "pending"]

\* selectToken up to its return or to the await
startCall(_token, known) ==
    IF _token = None
    THEN [NewCall(_token) EXCEPT !.selections = <<None>>]
    ELSE IF _token[1].address = <<>>
    THEN NewCall(_token)
    ELSE IF _token[1].address \notin known
    THEN [NewCall(_token) EXCEPT !.imports = <<_token[1].address>>]
    ELSE [NewCall(_token) EXCEPT !.fetches = <<_token[1].address>>,
                                 !.fetched = "pending",
                                 !.pc = "await",
                                 !.promise = "pending"]

\* selectToken after the await, the fetch having given data or nothing
resumeCall(call, data) ==
    IF data # None
    THEN [call EXCEPT !.fetched = "data",
                      !.data = data,
                      !.updates = <<call.token[1].address>>,
                      !.selections = <<Some(refreshedToken(call.token[1], data[1]))>>,
                      !.pc = "returned",
                      !.promise = "fulfilled"]
    ELSE [call EXCEPT !.fetched = "nothing", !.pc = "returned", !.promise = "fulfilled"]

\* catchError with the notice for every error
catchErrorAlertsAlways(call, name) ==
    [call EXCEPT !.fetched = "failed",
                 !.error = Some(name),
                 !.warns = @ + 1,
                 !.alerts = @ + 1,
                 !.pc = "returned",
                 !.promise = "fulfilled"]

\* the catch block, the fetch having failed
catchError(call, name) ==
    [call EXCEPT !.fetched = "failed",
                 !.error = Some(name),
                 !.warns = @ + 1,
                 !.alerts = IF name = "TokenDisabledError" THEN @ + 1 ELSE @,
                 !.pc = "returned",
                 !.promise = "fulfilled"]

\* app.selectedToken after the call's setSelectedToken, if it made one
selectedAfter(call, selected) ==
    IF call.selections = <<>> THEN selected
    ELSE call.selections[Len(call.selections)]

\* selectToken offered on both panels
selectTokenOnAnyPanel ==
    \E i \in 1..Len(tokensToShow) :
        LET call == startCall(rowToken(tokensFromUser, tokensFromLists, tokensToShow[i]),
                              bridgeTokens)
        IN  /\ Len(calls) < MaxCalls
            /\ calls' = Append(calls, call)
            /\ selectedToken' = selectedAfter(call, selectedToken)
            /\ UNCHANGED <<listenerVars, panelVars, bridgeTokens, currentPanel, listCall>>

\* a click on a row of the token list, which the TOKENS panel renders
selectToken ==
    \E i \in 1..Len(tokensToShow) :
        LET call == startCall(rowToken(tokensFromUser, tokensFromLists, tokensToShow[i]),
                              bridgeTokens)
        IN  /\ currentPanel = "TOKENS"
            /\ Len(calls) < MaxCalls
            /\ calls' = Append(calls, call)
            /\ selectedToken' = selectedAfter(call, selectedToken)
            /\ UNCHANGED <<listenerVars, panelVars, bridgeTokens, currentPanel, listCall>>

\* fetchResolves with a guard against stale responses: the data of a call
\* that is no longer the latest is dropped
fetchResolvesLatestOnly ==
    \E i \in 1..Len(calls) :
        /\ calls[i].pc = "await"
        /\ \E data \in {None} \cup {Some(d) : d \in L1TokenData(calls[i].token[1].address)} :
              LET resumed == resumeCall(calls[i], data)
                  call == IF i = Len(calls) THEN resumed
                          ELSE [resumed EXCEPT !.updates = <<>>, !.selections = <<>>]
              IN  /\ calls' = [calls EXCEPT ![i] = call]
                  /\ selectedToken' = selectedAfter(call, selectedToken)
        /\ UNCHANGED <<listenerVars, panelVars, bridgeTokens, currentPanel, listCall>>

\* getL1TokenData resolves
fetchResolves ==
    \E i \in 1..Len(calls) :
        /\ calls[i].pc = "await"
        /\ \E data \in {None} \cup {Some(d) : d \in L1TokenData(calls[i].token[1].address)} :
              LET call == resumeCall(calls[i], data)
              IN  /\ calls' = [calls EXCEPT ![i] = call]
                  /\ selectedToken' = selectedAfter(call, selectedToken)
        /\ UNCHANGED <<listenerVars, panelVars, bridgeTokens, currentPanel, listCall>>

\* getL1TokenData rejects
fetchRejects ==
    \E i \in 1..Len(calls) :
        /\ calls[i].pc = "await"
        /\ \E name \in ErrorNames :
              LET call == catchError(calls[i], name)
              IN  /\ calls' = [calls EXCEPT ![i] = call]
                  /\ selectedToken' = selectedAfter(call, selectedToken)
        /\ UNCHANGED <<listenerVars, panelVars, bridgeTokens, currentPanel, listCall>>

\* "Manage token lists".  TokensPanel is rendered by the TOKENS branch alone:
\* it is unmounted, and its state is what the next mount starts from.
showLists ==
    /\ currentPanel = "TOKENS"
    /\ currentPanel' = "LISTS"
    /\ newToken' = <<>>
    /\ tokensToShow' \in Renders(tokensFromUser, tokensFromLists, balances,
                                 isDepositMode, <<>>)
    /\ UNCHANGED <<tokensFromUser, tokensFromLists, balances, isDepositMode>>
    /\ UNCHANGED <<bridgeTokens, selectedToken, calls, listCall, listenerVars>>

\* "Back to Select Token"
showTokens ==
    /\ currentPanel = "LISTS"
    /\ currentPanel' = "TOKENS"
    /\ UNCHANGED <<listenerVars, panelVars, bridgeTokens, selectedToken, calls, listCall>>

\* the token lists of the network (listsToShow)
TokenLists == {"L1", "L2"}

\* the list a bridge token came from (token.listID), if any
listID(address) == IF address = AddrB THEN Some("L1") ELSE None

isActive(tokenList) == \E address \in bridgeTokens : listID(address) = Some(tokenList)

\* the switch of a token list on the LISTS panel; what the bridge then does to
\* its tokens is the bridge's
toggleTokenList ==
    \E tokenList \in TokenLists :
        /\ currentPanel = "LISTS"
        /\ listCall' = Some([call |-> IF isActive(tokenList)
                                      THEN "removeTokensFromList"
                                      ELSE "addBridgeTokenListToBridge",
                             list |-> tokenList])
        /\ UNCHANGED <<listenerVars, panelVars, bridgeTokens, selectedToken, currentPanel, calls>>

(***************************************************************************)
(* setChangeListeners and the listeners it registers on the injected       *)
(* provider.  Each call has its own `reloading`; a listener is recorded    *)
(* with the event it listens to and the call it belongs to.  reload() asks *)
(* for a reload; the page unloads some time later, and until then the      *)
(* provider's events are still delivered.                                  *)
(***************************************************************************)
ChangeEvents == {"networkChanged", "accountsChanged"}

\* the body of both listeners: reloading = true; window.location.reload()
onChange(closure) ==
    [reloading |-> TRUE, reloads |-> closure.reloads + 1]

\* the listeners a call registers: each behind `!reloading &&`, reloading
\* being false at that point
registered(closure, k) ==
    (IF ~closure.reloading
     THEN <<[event |-> "networkChanged", closure |-> k]>> ELSE <<>>)
    \o (IF ~closure.reloading
        THEN <<[event |-> "accountsChanged", closure |-> k]>> ELSE <<>>)

setChangeListeners ==
    LET closure == [reloading |-> FALSE, reloads |-> 0]
    IN  /\ ~unloaded
        /\ Len(closures) < MaxSetups
        /\ closures' = Append(closures, closure)
        /\ listeners' = IF ethereum
                        THEN listeners \o registered(closure, Len(closures) + 1)
                        ELSE listeners
        /\ UNCHANGED <<ethereum, events, unloaded, panelVars, modalVars>>

\* the provider emits an event: every listener registered for it runs
emit(event) ==
    /\ ethereum
    /\ ~unloaded
    /\ Len(events) < MaxEvents
    /\ events' = Append(events, event)
    /\ closures' = [k \in 1..Len(closures) |->
                      IF \E i \in 1..Len(listeners) :
                            listeners[i].event = event /\ listeners[i].closure = k
                      THEN onChange(closures[k])
                      ELSE closures[k]]
    /\ UNCHANGED <<ethereum, listeners, unloaded, panelVars, modalVars>>

networkChanged == emit("networkChanged")

accountsChanged == emit("accountsChanged")

\* the page unloads, a reload having been asked for
unload ==
    /\ ~unloaded
    /\ \E k \in 1..Len(closures) : closures[k].reloads > 0
    /\ unloaded' = TRUE
    /\ UNCHANGED <<ethereum, closures, listeners, events, panelVars, modalVars>>

NoListeners ==
    /\ closures = <<>>
    /\ listeners = <<>>
    /\ events = <<>>
    /\ unloaded = FALSE

InitModal ==
    /\ bridgeTokens = {}
    /\ selectedToken = None
    /\ currentPanel = "TOKENS"
    /\ calls = <<>>
    /\ listCall = None
    /\ ethereum = TRUE
    /\ NoListeners

(***************************************************************************)
(* Typing into the search input: onChange={e => setNewToken(...)}, and the *)
(* re-render that recomputes the memoised list.                            *)
(***************************************************************************)
setNewToken(text) ==
    /\ currentPanel = "TOKENS"
    /\ newToken' = text
    /\ tokensToShow' \in Renders(tokensFromUser, tokensFromLists, balances,
                                 isDepositMode, text)
    /\ UNCHANGED <<tokensFromUser, tokensFromLists, balances, isDepositMode>>
    /\ UNCHANGED <<modalVars, listenerVars>>

Backspace ==
    /\ Len(newToken) > 0
    /\ setNewToken(SubSeq(newToken, 1, Len(newToken) - 1))

InitPanel ==
    /\ newToken = <<>>
    /\ tokensToShow \in Renders(tokensFromUser, tokensFromLists, balances,
                                isDepositMode, newToken)

(***************************************************************************)
(* SpecSearch: two tokens, every text of at most MaxQueryLen characters.   *)
(***************************************************************************)
SearchChars == {"e", "t", "h", "a", "x", "y", "E", " "}

SearchBalances ==
    {None, MakeBalances({AddrA, AddrB}, (AddrA :> Some(1)) @@ (AddrB :> None))}

InitSearch ==
    /\ tokensFromUser \in UserMaps({AddrA, AddrB})
    /\ tokensFromLists \in ListMaps({AddrA, AddrB})
    /\ balances \in SearchBalances
    /\ isDepositMode = TRUE
    /\ InitPanel
    /\ InitModal

TypeSearch ==
    \E c \in SearchChars :
        /\ Len(newToken) < MaxQueryLen
        /\ setNewToken(Append(newToken, c))

NextSearch == TypeSearch \/ Backspace

SpecSearch == InitSearch /\ [][NextSearch]_vars

(***************************************************************************)
(* SpecSort: three tokens, every balance, a short text.                    *)
(***************************************************************************)
SortChars == {"x", " "}

SortUserKeys == {<<>>, <<AddrA>>, <<AddrB, AddrA>>, <<AddrA, AddrC, AddrB>>}

InitSort ==
    /\ tokensFromUser \in {MakeMap(k, UserRecords) : k \in SortUserKeys}
    /\ tokensFromLists \in ListMaps(Addresses)
    /\ balances \in BalanceMaps(Addresses)
    /\ isDepositMode \in BOOLEAN
    /\ InitPanel
    /\ InitModal

TypeSort ==
    \E c \in SortChars :
        /\ Len(newToken) < SortQueryLen
        /\ setNewToken(Append(newToken, c))

NextSort == TypeSort \/ Backspace

SpecSort == InitSort /\ [][NextSort]_vars

(***************************************************************************)
(* Spec: the modal with two tokens, each with a positive balance.          *)
(***************************************************************************)
ModalChars == {"a"}

ModalBalances ==
    MakeBalances({AddrA, AddrB}, (AddrA :> Some(2)) @@ (AddrB :> Some(1)))

ModalUserKeys == {<<>>, <<AddrA>>, <<AddrA, AddrB>>}
ModalListKeys == {<<>>, <<AddrB>>, <<AddrB, AddrA>>}

\* the token selected before the modal opens
SelectedBefore == [name |-> <<"P">>, symbol |-> <<"P">>, address |-> AddrC,
                   l2Address |-> None]

Init ==
    /\ tokensFromUser \in {MakeMap(k, UserRecords) : k \in ModalUserKeys}
    /\ tokensFromLists \in {MakeMap(k, ListRecords) : k \in ModalListKeys}
    /\ balances = ModalBalances
    /\ isDepositMode = TRUE
    /\ InitPanel
    /\ bridgeTokens \in SUBSET {AddrA, AddrB}
    /\ selectedToken \in {None, Some(SelectedBefore)}
    /\ currentPanel = "TOKENS"
    /\ calls = <<>>
    /\ listCall = None
    /\ ethereum = TRUE
    /\ NoListeners

TypeModal ==
    \E c \in ModalChars :
        /\ Len(newToken) < SortQueryLen
        /\ setNewToken(Append(newToken, c))

Next ==
    \/ TypeModal
    \/ Backspace
    \/ selectToken
    \/ fetchResolves
    \/ fetchRejects
    \/ showLists
    \/ showTokens
    \/ toggleTokenList

Spec == Init /\ [][Next]_vars

(***************************************************************************)
(* SpecListeners: the page with or without an injected provider, no token. *)
(***************************************************************************)
InitListeners ==
    /\ tokensFromUser = MakeMap(<<>>, UserRecords)
    /\ tokensFromLists = MakeMap(<<>>, ListRecords)
    /\ balances = None
    /\ isDepositMode = TRUE
    /\ InitPanel
    /\ bridgeTokens = {}
    /\ selectedToken = None
    /\ currentPanel = "TOKENS"
    /\ calls = <<>>
    /\ listCall = None
    /\ ethereum \in BOOLEAN
    /\ NoListeners

NextListeners ==
    \/ setChangeListeners
    \/ networkChanged
    \/ accountsChanged
    \/ unload

SpecListeners == InitListeners /\ [][NextListeners]_vars

(***************************************************************************)
(* The vocabulary of the properties, stated on the state alone.            *)
(***************************************************************************)
Shown(address) == \E i \in 1..Len(tokensToShow) : tokensToShow[i] = address

MapKeys == Range(ObjectKeys(tokensFromUser)) \cup Range(ObjectKeys(tokensFromLists))

NoDuplicates(s) == \A i, j \in 1..Len(s) : s[i] = s[j] => i = j

\* the text of the search input without the spaces around it, in lower case
NonSpaces == {i \in 1..Len(newToken) : newToken[i] # " "}

TypedQuery ==
    IF NonSpaces = {} THEN <<>>
    ELSE LET lo == CHOOSE i \in NonSpaces : \A j \in NonSpaces : i <= j
             hi == CHOOSE i \in NonSpaces : \A j \in NonSpaces : j <= i
         IN  [i \in 1..(hi - lo + 1) |-> toLowerChar(newToken[lo + i - 1])]

\* the balance of a token on the side the mode names, when there is one
HasActiveBalance(address) ==
    /\ balances # None
    /\ address \in DOMAIN balances[1].erc20
    /\ IF isDepositMode THEN balances[1].erc20[address].balance # None
       ELSE balances[1].erc20[address].arbChainBalance # None

ActiveBalance(address) ==
    IF isDepositMode THEN balances[1].erc20[address].balance[1]
    ELSE balances[1].erc20[address].arbChainBalance[1]

\* the records the two maps hold for an address
RecordsOf(address) ==
    {m.at[address] : m \in {m \in {tokensFromUser, tokensFromLists} :
                               address \in DOMAIN m.at}}

\* the query is a substring of one of the record's own fields
MatchesOneField(token, query) ==
    \/ includes(toLowerCase(token.name), query)
    \/ includes(toLowerCase(token.symbol), query)
    \/ includes(toLowerCase(token.address), query)
    \/ token.l2Address # None /\ includes(toLowerCase(token.l2Address[1]), query)

PositionIn(s, x) == CHOOSE i \in 1..Len(s) : s[i] = x

(***************************************************************************)
(* C1: with an empty query (the input is empty after trimming) the native  *)
(* asset is in the list, and an address of the two maps is in the list if  *)
(* and only if its balance on the side of the mode is present and > 0.     *)
(***************************************************************************)
C1_EmptyQueryKeepsPositiveBalances ==
    TypedQuery = <<>> =>
        /\ Shown(ETH_IDENTIFIER)
        /\ \A a \in MapKeys :
              Shown(a) <=> (HasActiveBalance(a) /\ ActiveBalance(a) > 0)

\* a blank text in withdraw mode: one token listed, and one left out although
\* its deposit-side balance is positive
C1_Witness ==
    /\ newToken = <<" ">>
    /\ ~isDepositMode
    /\ \E a, b \in MapKeys :
          /\ Shown(a)
          /\ ~Shown(b)
          /\ b \in DOMAIN balances[1].erc20
          /\ balances[1].erc20[b].balance = Some(MaxBal)

(***************************************************************************)
(* C2: with a non-empty query, every token in the list other than the      *)
(* native asset has a field (name, symbol, address or l2Address) that by   *)
(* itself contains the query, case-insensitively.                          *)
(***************************************************************************)
C2_EveryListedTokenMatchesInOneField ==
    TypedQuery # <<>> =>
        \A a \in MapKeys :
            Shown(a) => \E token \in RecordsOf(a) : MatchesOneField(token, TypedQuery)

(***************************************************************************)
(* C3: with a non-empty query the native asset is in the list if and only  *)
(* if the query is a substring of "ethereumeth", whatever the balances and *)
(* the maps.                                                               *)
(***************************************************************************)
C3_NativeListedIffQueryInEthereumEth ==
    TypedQuery # <<>> =>
        (Shown(ETH_IDENTIFIER) <=>
            \E i \in 0..(11 - Len(TypedQuery)) :
                \A k \in 1..Len(TypedQuery) : ETH_SEARCH[i + k] = TypedQuery[k])

\* "eth" typed with capitals and spaces around, no token and no balance
C3_Witness ==
    /\ newToken = <<" ", "E", "t">>
    /\ Shown(ETH_IDENTIFIER)
    /\ MapKeys = {}
    /\ balances = None

(***************************************************************************)
(* C4: when the native asset is in the list it is the first element, and   *)
(* it is there once.                                                       *)
(***************************************************************************)
C4_NativeFirstAndOnce ==
    \A i \in 1..Len(tokensToShow) : tokensToShow[i] = ETH_IDENTIFIER => i = 1

\* the native asset ahead of three tokens with balances
C4_Witness ==
    /\ Len(tokensToShow) = 4
    /\ tokensToShow[1] = ETH_IDENTIFIER
    /\ \A a \in Addresses : HasActiveBalance(a)

(***************************************************************************)
(* C5: no address is twice in the aggregated candidates or in the list;    *)
(* the candidates are the native asset followed by the union of the keys   *)
(* of the two maps.                                                        *)
(***************************************************************************)
C5_CandidatesAreNativeThenUnionOfKeys ==
    LET c == candidatesOf(tokensFromUser, tokensFromLists)
    IN  /\ c[1] = ETH_IDENTIFIER
        /\ NoDuplicates(c)
        /\ Range(Tail(c)) = MapKeys
        /\ NoDuplicates(tokensToShow)

\* an address that is a key of both maps, in the list
C5_Witness ==
    \E a \in Range(ObjectKeys(tokensFromUser)) \cap Range(ObjectKeys(tokensFromLists)) :
        /\ Shown(a)
        /\ Cardinality(MapKeys) = 2

(***************************************************************************)
(* C6: of two tokens x before y in the list, neither the native asset, x   *)
(* never lacks a balance that y has, and y's balance is never strictly     *)
(* larger than x's when both have one.                                     *)
(***************************************************************************)
C6_ListedByBalanceDescendingAbsentLast ==
    \A i, j \in 1..Len(tokensToShow) :
        (i < j /\ tokensToShow[i] # ETH_IDENTIFIER /\ tokensToShow[j] # ETH_IDENTIFIER) =>
            LET x == tokensToShow[i]
                y == tokensToShow[j]
            IN  /\ ~(~HasActiveBalance(x) /\ HasActiveBalance(y))
                /\ ~(/\ HasActiveBalance(x)
                     /\ HasActiveBalance(y)
                     /\ ActiveBalance(y) > ActiveBalance(x))

\* user map {A: 1}, list map {B: 2}, empty query: [native, B, A]
C6_Witness ==
    /\ ObjectKeys(tokensFromUser) = <<AddrA>>
    /\ ObjectKeys(tokensFromLists) = <<AddrB>>
    /\ newToken = <<>>
    /\ HasActiveBalance(AddrA) /\ ActiveBalance(AddrA) = 1
    /\ HasActiveBalance(AddrB) /\ ActiveBalance(AddrB) = 2
    /\ tokensToShow = <<ETH_IDENTIFIER, AddrB, AddrA>>

(***************************************************************************)
(* C7: two tokens in the list that both have no balance in the mode are in *)
(* the order of the aggregated candidates (the user map's keys, then the   *)
(* list map's keys not seen before).                                       *)
(***************************************************************************)
C7_AbsentBalancesKeepCandidateOrder ==
    LET c == Dedup(ObjectKeys(tokensFromUser) \o ObjectKeys(tokensFromLists))
    IN  \A i, j \in 1..Len(tokensToShow) :
            (/\ i < j
             /\ tokensToShow[i] # ETH_IDENTIFIER
             /\ tokensToShow[j] # ETH_IDENTIFIER
             /\ ~HasActiveBalance(tokensToShow[i])
             /\ ~HasActiveBalance(tokensToShow[j])) =>
                PositionIn(c, tokensToShow[i]) < PositionIn(c, tokensToShow[j])

\* two tokens without a balance, found by a query, behind one with a balance
\* that came last in the candidates
C7_Witness ==
    /\ Len(tokensToShow) = 3
    /\ HasActiveBalance(tokensToShow[1])
    /\ ~HasActiveBalance(tokensToShow[2])
    /\ ~HasActiveBalance(tokensToShow[3])
    /\ ObjectKeys(tokensFromUser) = <<tokensToShow[2], tokensToShow[3], tokensToShow[1]>>

(***************************************************************************)
(* C8: a selection of a token record whose address is no key of the        *)
(* bridge-token set calls onImportToken once, with the address, and calls  *)
(* neither getL1TokenData nor updateTokenData nor setSelectedToken.        *)
(***************************************************************************)
C8_UnknownTokenIsImportedNotFetched ==
    \A i \in 1..Len(calls) :
        (calls[i].token # None /\ calls[i].token[1].address \notin bridgeTokens) =>
            /\ calls[i].imports = <<calls[i].token[1].address>>
            /\ calls[i].fetches = <<>>
            /\ calls[i].updates = <<>>
            /\ calls[i].selections = <<>>

\* token A, unknown to the bridge, was selected and its import asked for
C8_Witness ==
    \E i \in 1..Len(calls) :
        /\ AddrA \notin bridgeTokens
        /\ calls[i].imports = <<AddrA>>
        /\ calls[i].pc = "returned"

(***************************************************************************)
(* C9: a selection of a token record whose address is a key of the         *)
(* bridge-token set, whose fetch gives data, calls setSelectedToken once,  *)
(* after the fetch, with the refreshed record carrying the l2Address of    *)
(* the chosen record, and does not call onImportToken.                     *)
(***************************************************************************)
C9_KnownTokenIsRefreshedWithChosenL2Address ==
    \A i \in 1..Len(calls) :
        (calls[i].token # None /\ calls[i].token[1].address \in bridgeTokens) =>
            /\ calls[i].imports = <<>>
            /\ calls[i].fetched = "pending" => calls[i].selections = <<>>
            /\ calls[i].fetched = "data" =>
                  /\ Len(calls[i].selections) = 1
                  /\ calls[i].selections[1] # None
                  /\ LET set == calls[i].selections[1][1]
                         got == calls[i].data[1]
                     IN  /\ set.l2Address = calls[i].token[1].l2Address
                         /\ set.name = got.name
                         /\ set.symbol = got.symbol
                         /\ set.address = got.address

\* the chosen record and the fetched data name two different l2 addresses
C9_Witness ==
    \E i \in 1..Len(calls) :
        /\ calls[i].fetched = "data"
        /\ calls[i].token[1].l2Address = Some(<<"y", "a">>)
        /\ calls[i].data[1].l2Address = Some(<<"y", "z">>)
        /\ selectedToken = calls[i].selections[1]

(***************************************************************************)
(* C10: when the fetch of a selection fails, the selection stays as it     *)
(* was and setSelectedToken is not called, the promise of selectToken is   *)
(* not rejected, and there is a notice if and only if the error's name is  *)
(* 'TokenDisabledError'.                                                   *)
(***************************************************************************)
C10_FailedFetchLeavesSelection ==
    [][\A i \in 1..Len(calls) :
          (calls[i].pc = "await" /\ calls'[i].fetched = "failed") =>
              /\ selectedToken' = selectedToken
              /\ calls'[i].selections = <<>>
              /\ calls'[i].pc = "returned"
              /\ calls'[i].promise = "fulfilled"
              /\ (calls'[i].alerts = 1 <=> calls'[i].error = Some("TokenDisabledError"))
              /\ (calls'[i].alerts = 0 <=> calls'[i].error # Some("TokenDisabledError"))]_vars

\* one fetch failed for a disabled token and one for another reason; the
\* token selected before is still selected
C10_Witness ==
    /\ Len(calls) = 2
    /\ calls[1].error = Some("TokenDisabledError") /\ calls[1].alerts = 1
    /\ calls[2].error = Some("Error") /\ calls[2].alerts = 0
    /\ selectedToken = Some(SelectedBefore)

(***************************************************************************)
(* C11: the panel starts as the token list and only toggles between the    *)
(* token list and the list manager: it changes only by "Manage token       *)
(* lists", from TOKENS to LISTS, and by "Back to Select Token", from LISTS *)
(* to TOKENS; no selection, search or list switch changes it; a selection  *)
(* is issued only on the TOKENS panel.                                     *)
(***************************************************************************)
C11_PanelOnlyToggles ==
    /\ currentPanel = "TOKENS"
    /\ [][/\ currentPanel' # currentPanel =>
                \/ currentPanel = "TOKENS" /\ currentPanel' = "LISTS" /\ showLists
                \/ currentPanel = "LISTS" /\ currentPanel' = "TOKENS" /\ showTokens
          /\ (\/ selectToken
              \/ fetchResolves
              \/ fetchRejects
              \/ TypeModal
              \/ Backspace
              \/ toggleTokenList) => currentPanel' = currentPanel
          /\ Len(calls') > Len(calls) => currentPanel = "TOKENS"]_vars

\* back on the token list after a list was switched, a token is selected
C11_Witness ==
    /\ currentPanel = "TOKENS"
    /\ listCall # None
    /\ Len(calls) = 1

(***************************************************************************)
(* C12: selections are not guarded against re-entrancy.  A second          *)
(* selection can be made while the fetch of the first is pending, both     *)
(* fetches go on, and each fetch that gives data sets the selection to its *)
(* own token when it completes, whichever calls were made or completed in  *)
(* between: when the fetch for A, selected first, completes after the      *)
(* fetch for B, the selection at the end is A.                             *)
(***************************************************************************)
C12_EveryCompletedFetchSetsItsOwnSelection ==
    [][\A i \in 1..Len(calls) :
          (calls[i].pc = "await" /\ calls'[i].fetched = "data") =>
              /\ calls'[i].selections # <<>>
              /\ selectedToken' = calls'[i].selections[1]
              /\ selectedToken'[1].address = calls[i].token[1].address
              /\ \A j \in 1..Len(calls) : j # i => calls'[j] = calls[j]]_vars

\* A was selected, then B while A's fetch was pending; both fetches gave data,
\* B's first: the selection is A
C12_Witness ==
    /\ Len(calls) = 2
    /\ calls[1].fetched = "data" /\ calls[1].token[1].address = AddrA
    /\ calls[2].fetched = "data" /\ calls[2].token[1].address = AddrB
    /\ selectedToken # None
    /\ selectedToken[1].address = AddrA

(***************************************************************************)
(* C13: the comparator of the sort orders the candidates totally: for two  *)
(* different candidates it never says both that the first sorts before the *)
(* second and that the second sorts before the first, nor that each sorts  *)
(* after the other; its two answers have opposite signs or are both zero,  *)
(* also for two present balances that are equal.                           *)
(***************************************************************************)
C13_ComparatorAnswersAreOpposite ==
    \A i, j \in 1..Len(tokensToShow) :
        i # j =>
            LET ab == compare(balances, isDepositMode, tokensToShow[i], tokensToShow[j])
                ba == compare(balances, isDepositMode, tokensToShow[j], tokensToShow[i])
            IN  \/ ab < 0 /\ ba > 0
                \/ ab > 0 /\ ba < 0
                \/ ab = 0 /\ ba = 0

(***************************************************************************)
(* C14: once a call of setChangeListeners has registered its listeners on  *)
(* an injected provider, at most one reload is asked for: after the first  *)
(* 'networkChanged' or 'accountsChanged' has set reloading and called      *)
(* reload(), a further event calls no reload().                            *)
(***************************************************************************)
C14_AtMostOneReloadPerSetup ==
    \A k \in 1..Len(closures) : closures[k].reloads <= 1

(***************************************************************************)
(* C15: with a query typed, every listed token's own row record -- the one *)
(* the row renders and hands to onTokenSelected -- satisfies the search    *)
(* predicate: its lower-cased name, symbol, address and l2Address, joined, *)
(* contain the query.                                                      *)
(***************************************************************************)
C15_RowRecordMatchesTheQuery ==
    TypedQuery # <<>> =>
        \A a \in MapKeys :
            Shown(a) =>
                includes(searchText(rowToken(tokensFromUser, tokensFromLists, a)[1]),
                         TypedQuery)

====
